---------------------------- MODULE Spec2Model ----------------------------
(***************************************************************************)
(* Nordic Ski 5-zone heart-rate calculator (streamlit_nordic_zones_full.py)*)
(* modelled as one run of the Streamlit script: upload tab, paste tab,     *)
(* validation, sort, time parsing, LTHR detection, sidebar anchors, zone   *)
(* table and rendering.                                                    *)
(*                                                                         *)
(* Python floats are IEEE-754 doubles.  Every float the script computes is *)
(* a product of a decimal literal and a small integer, so it is a multiple *)
(* of 2^-53; it is held exactly as sign and magnitude, the magnitude being *)
(* the count of 2^-53 units written in base 2^13 (least limb first).       *)
(***************************************************************************)
EXTENDS Integers, Sequences, FiniteSets, TLC

----------------------------------------------------------------------------
(* Exact arithmetic on magnitudes (limb sequences).                        *)

LimbBase == 64 * 128
Limbs == 1..6

RECURSIVE Pow2(_)
Pow2(n) == IF n = 0 THEN 1 ELSE 2 * Pow2(n - 1)

Abs(n) == IF n < 0 THEN -n ELSE n

BZero == [i \in Limbs |-> 0]

RECURSIVE MulCarry(_, _, _, _)
MulCarry(x, k, i, carry) ==
    IF i > Len(x) THEN <<>>
    ELSE LET p == x[i] * k + carry
         IN  <<p % LimbBase>> \o MulCarry(x, k, i + 1, p \div LimbBase)

\* x * k for a magnitude x and 0 <= k < 2^13
BMulSmall(x, k) == MulCarry(x, k, 1, 0)

RECURSIVE AddCarry(_, _, _)
AddCarry(x, i, carry) ==
    IF i > Len(x) THEN <<>>
    ELSE LET p == x[i] + carry
         IN  <<p % LimbBase>> \o AddCarry(x, i + 1, p \div LimbBase)

\* x + k for a magnitude x and 0 <= k <= 2^13
BAddSmall(x, k) == AddCarry(x, 1, k)

RECURSIVE SubBorrow(_, _, _, _)
SubBorrow(x, y, i, borrow) ==
    IF i > Len(x) THEN <<>>
    ELSE LET d == x[i] - y[i] - borrow
         IN  IF d < 0 THEN <<d + LimbBase>> \o SubBorrow(x, y, i + 1, 1)
                      ELSE <<d>> \o SubBorrow(x, y, i + 1, 0)

RECURSIVE LessFrom(_, _, _)
LessFrom(x, y, i) ==
    IF i = 0 THEN FALSE
    ELSE IF x[i] # y[i] THEN x[i] < y[i] ELSE LessFrom(x, y, i - 1)

BLess(x, y) == LessFrom(x, y, Len(x))

\* |x - y|
BDist(x, y) == IF BLess(x, y) THEN SubBorrow(y, x, 1, 0) ELSE SubBorrow(x, y, 1, 0)

RECURSIVE SmallBitLen(_)
SmallBitLen(n) == IF n = 0 THEN 0 ELSE 1 + SmallBitLen(n \div 2)

RECURSIVE BitLenFrom(_, _)
BitLenFrom(x, i) ==
    IF i = 0 THEN 0
    ELSE IF x[i] # 0 THEN 13 * (i - 1) + SmallBitLen(x[i]) ELSE BitLenFrom(x, i - 1)

BitLen(x) == BitLenFrom(x, Len(x))

----------------------------------------------------------------------------
(* Doubles.  A decimal literal c of the source is the double nearest to it:*)
(* mant * 2^-frac with 2^52 <= mant < 2^53.                                *)

Lit055 == [mant |-> <<6554, 3276, 1638, 819, 1, 0>>, frac |-> 53]
Lit070 == [mant |-> <<1638, 4915, 6553, 3276, 1, 0>>, frac |-> 53]
Lit080 == [mant |-> <<6554, 3276, 1638, 4915, 1, 0>>, frac |-> 53]
Lit087 == [mant |-> <<983, 2949, 655, 6062, 1, 0>>, frac |-> 53]
Lit092 == [mant |-> <<7537, 6225, 2293, 6881, 1, 0>>, frac |-> 53]
Lit085 == [mant |-> <<4915, 6553, 3276, 5734, 1, 0>>, frac |-> 53]
Lit089 == [mant |-> <<5243, 7536, 6225, 6389, 1, 0>>, frac |-> 53]
Lit094 == [mant |-> <<3604, 2621, 7864, 7208, 1, 0>>, frac |-> 53]
Lit115 == [mant |-> <<1638, 4915, 6553, 1228, 1, 0>>, frac |-> 52]
Lit09  == [mant |-> <<3277, 1638, 4915, 6553, 1, 0>>, frac |-> 53]

\* The double product c * m of a literal and an int (the int converts
\* exactly): the exact product rounded to 53 significant bits, ties to even.
FMul(c, m) ==
    LET P    == BMulSmall(c.mant, Abs(m))
        b    == BitLen(P)
        s    == IF b > 53 THEN b - 53 ELSE 0
        r    == P[1] % Pow2(s)
        odd  == (P[1] \div Pow2(s)) % 2 = 1
        up   == s >= 1 /\ (2 * r > Pow2(s) \/ (2 * r = Pow2(s) /\ odd))
        R    == BAddSmall([P EXCEPT ![1] = P[1] - r], IF up THEN Pow2(s) ELSE 0)
    IN  [neg |-> m < 0,
         mag |-> IF c.frac = 52 THEN BMulSmall(R, 2) ELSE R]

\* An int as a number
FInt(n) == [neg |-> n < 0, mag |-> BMulSmall(<<0, 0, 0, 0, 2, 0>>, Abs(n))]

\* a < b
FLess(a, b) ==
    IF a.neg /\ ~b.neg THEN a.mag # BZero \/ b.mag # BZero
    ELSE IF ~a.neg /\ b.neg THEN FALSE
    ELSE IF a.neg THEN BLess(b.mag, a.mag)
    ELSE BLess(a.mag, b.mag)

FLeq(a, b) == ~FLess(b, a)

\* Python int(x): truncation toward zero
FTrunc(x) ==
    LET whole == (x.mag[5] + LimbBase * x.mag[6]) \div 2
    IN  IF x.neg THEN -whole ELSE whole

\* Python max(a, b): b only when it is strictly greater
PyMax(a, b) == IF FLess(a, b) THEN b ELSE a


----------------------------------------------------------------------------
(* Tables.  pandas and fitdecode are libraries: a parsed file or pasted    *)
(* text is the table the parser returned (or its failure).  A cell of Lap  *)
(* or HR is a number ("num") or text that no numeric conversion accepts    *)
(* ("str"); a Time cell is its text, one character per element; Time_sec   *)
(* is a number or NaN.  Cells of a column the table lacks are NoCell.      *)

NumCell(v) == [t |-> "num", v |-> v]
StrCell == [t |-> "str", v |-> 0]
NaNCell == [t |-> "nan", v |-> 0]
NoCell  == [t |-> "none", v |-> 0]

NoTable == [some |-> FALSE, cols |-> {}, rows |-> <<>>]
Table(cols, rows) == [some |-> TRUE, cols |-> cols, rows |-> rows]

Range(f) == {f[i] : i \in DOMAIN f}

----------------------------------------------------------------------------
(* to_sec: lines 134-140                                                   *)

DigitChars == {"0", "1", "2", "3", "4", "5", "6", "7", "8", "9"}

DigitVal(c) ==
    CASE c = "0" -> 0 [] c = "1" -> 1 [] c = "2" -> 2 [] c = "3" -> 3
      [] c = "4" -> 4 [] c = "5" -> 5 [] c = "6" -> 6 [] c = "7" -> 7
      [] c = "8" -> 8 [] c = "9" -> 9

RECURSIVE SplitAcc(_, _, _)
SplitAcc(s, i, cur) ==
    IF i > Len(s) THEN <<cur>>
    ELSE IF s[i] = ":" THEN <<cur>> \o SplitAcc(s, i + 1, <<>>)
    ELSE SplitAcc(s, i + 1, Append(cur, s[i]))

\* str.split(':')
Split(s) == SplitAcc(s, 1, <<>>)

\* float(p) succeeds: over the characters modelled (digits, ':' and 'x')
\* exactly for the non-empty digit strings
FloatOk(p) == Len(p) > 0 /\ \A i \in 1..Len(p) : p[i] \in DigitChars

RECURSIVE DecVal(_, _, _)
DecVal(p, i, acc) ==
    IF i > Len(p) THEN acc ELSE DecVal(p, i + 1, 10 * acc + DigitVal(p[i]))

\* float(p) for a digit string
Float(p) == DecVal(p, 1, 0)

\* to_sec(t): "raise" is the ValueError of float(), "nan" is np.nan
to_sec(t) ==
    LET parts == Split(t)
    IN  IF \E i \in 1..Len(parts) : ~FloatOk(parts[i])
        THEN [t |-> "raise", v |-> 0]
        ELSE IF Len(parts) = 2
        THEN NumCell(Float(parts[1]) * 60 + Float(parts[2]))
        ELSE IF Len(parts) = 3
        THEN NumCell(Float(parts[1]) * 3600 + Float(parts[2]) * 60 + Float(parts[3]))
        ELSE NaNCell

----------------------------------------------------------------------------
(* Detect LTHR: lines 149-156.  Indices are the source's (from 0).         *)

HRAt(rows, i) == rows[i + 1].HR.v

\* inc = df['HR'].diff().fillna(0)
inc(rows, i) == IF i = 0 THEN 0 ELSE HRAt(rows, i) - HRAt(rows, i - 1)

\* inc[i] > 0 and inc[i-1] > 0 and inc[i] < 0.5*inc[i-1]; halving a double
\* is exact, so the last test is 2*inc[i] < inc[i-1]
Deflects(rows, i) ==
    /\ inc(rows, i) > 0
    /\ inc(rows, i - 1) > 0
    /\ 2 * inc(rows, i) < inc(rows, i - 1)

NoIndex == 0 - 1

\* the loop without its break: the last deflection wins
RECURSIVE ScanNoBreak(_, _)
ScanNoBreak(rows, i) ==
    IF i >= Len(rows) THEN NoIndex
    ELSE LET later == ScanNoBreak(rows, i + 1)
         IN  IF later # NoIndex THEN later
             ELSE IF Deflects(rows, i) THEN i ELSE NoIndex

\* for i in range(2, len(inc)): if ...: thr = ...; break
RECURSIVE Scan(_, _)
Scan(rows, i) ==
    IF i >= Len(rows) THEN NoIndex
    ELSE IF Deflects(rows, i) THEN i
    ELSE Scan(rows, i + 1)

\* df['HR'].max()
MaxHR(rows) == CHOOSE h \in {rows[k].HR.v : k \in 1..Len(rows)} :
                   \A k \in 1..Len(rows) : rows[k].HR.v <= h

\* thr after lines 150-156
DetectThr(rows) ==
    LET i == Scan(rows, 2)
    IN  IF i # NoIndex THEN HRAt(rows, i)
        ELSE FTrunc(FMul(Lit09, MaxHR(rows)))

----------------------------------------------------------------------------
(* Build zones: lines 165-181                                              *)

Band(z, lo, hi) == [zone |-> z, lo |-> lo, hi |-> hi]

\* zones_max with Zone 4 starting at 0.89*m
zones_max_off(m) ==
    << Band("Zone 1", FMul(Lit055, m), FMul(Lit070, m)),
       Band("Zone 2", FMul(Lit070, m), FMul(Lit080, m)),
       Band("Zone 3", FMul(Lit080, m), FMul(Lit087, m)),
       Band("Zone 4", FMul(Lit089, m), FMul(Lit092, m)),
       Band("Zone 5", FMul(Lit092, m), FInt(m)) >>

zones_max(m) ==
    << Band("Zone 1", FMul(Lit055, m), FMul(Lit070, m)),
       Band("Zone 2", FMul(Lit070, m), FMul(Lit080, m)),
       Band("Zone 3", FMul(Lit080, m), FMul(Lit087, m)),
       Band("Zone 4", FMul(Lit087, m), FMul(Lit092, m)),
       Band("Zone 5", FMul(Lit092, m), FInt(m)) >>

\* zones_thr with Zone 3 starting at 0.9*t
zones_thr_gap(t, m) ==
    << Band("Zone 1", FInt(0), FMul(Lit085, t)),
       Band("Zone 2", FMul(Lit085, t), FMul(Lit089, t)),
       Band("Zone 3", FMul(Lit09, t), FMul(Lit094, t)),
       Band("Zone 4", FMul(Lit094, t), FInt(t)),
       Band("Zone 5", FInt(t), PyMax(FMul(Lit115, t), FInt(m))) >>

zones_thr(t, m) ==
    << Band("Zone 1", FInt(0), FMul(Lit085, t)),
       Band("Zone 2", FMul(Lit085, t), FMul(Lit089, t)),
       Band("Zone 3", FMul(Lit089, t), FMul(Lit094, t)),
       Band("Zone 4", FMul(Lit094, t), FInt(t)),
       Band("Zone 5", FInt(t), PyMax(FMul(Lit115, t), FInt(m))) >>

ModelMax == "% of Max HR"
ModelThr == "% of Threshold HR"

\* model.startswith('% of Max')
StartsWithMax(model) == model = ModelMax

SelectZones(model, t, m) ==
    IF StartsWithMax(model) THEN zones_max(m) ELSE zones_thr(t, m)

\* zone_df rows: (z, int(lo), int(hi))
ZoneRows(zs) ==
    [n \in 1..Len(zs) |->
        [Zone |-> zs[n].zone, Low |-> FTrunc(zs[n].lo), High |-> FTrunc(zs[n].hi)]]


----------------------------------------------------------------------------
(* One run of the script.                                                  *)

VARIABLES
    up,          \* the file uploader's value (line 89)
    paste,       \* the text area's value (line 105)
    thrIn,       \* what the user typed into 'Threshold HR', if anything
    maxIn,       \* what the user typed into 'Max HR', if anything
    modelIn,     \* the radio's selected option
    pc,          \* the section of the script that runs next
    df,          \* the table (None until a tab assigns it)
    errors,      \* the st.error messages shown
    shown,       \* st.dataframe(df) was called
    max_hr_obs, thr, max_hr, model,
    zones,       \* the dict of real-valued bands, in insertion order
    zone_df,     \* the integer table given to st.table
    rendered     \* chart and download buttons were produced

inputs == <<up, paste, thrIn, maxIn, modelIn>>
vars == <<up, paste, thrIn, maxIn, modelIn, pc, df, errors, shown,
          max_hr_obs, thr, max_hr, model, zones, zone_df, rendered>>

None == [set |-> FALSE, v |-> 0]
Some(v) == [set |-> TRUE, v |-> v]

Err(msg, names) == [msg |-> msg, names |-> names]

MsgTooBig   == "File exceeds 2 MB"
MsgReadFile == "Error reading file"
MsgParse    == "Parsing error"
MsgMissing  == "Missing column(s)"
MsgType     == "Lap must be integer; HR numeric."

\* line 118
required == {"Lap", "Time", "HR"}

\* lines 88-102
Upload ==
    /\ pc = "upload"
    /\ IF up.kind = "big"
       THEN errors' = errors \cup {Err(MsgTooBig, {})} /\ df' = df
       ELSE IF up.kind = "bad"
       THEN errors' = errors \cup {Err(MsgReadFile, {})} /\ df' = df
       ELSE IF up.kind = "ok"
       THEN df' = up.table /\ errors' = errors
       ELSE df' = df /\ errors' = errors
    /\ pc' = "paste"
    /\ UNCHANGED <<inputs, shown, max_hr_obs, thr, max_hr, model, zones,
                   zone_df, rendered>>

\* the paste tab yielding to an uploaded table
PasteUnlessUploaded ==
    /\ pc = "paste"
    /\ IF paste.kind = "bad"
       THEN errors' = errors \cup {Err(MsgParse, {})} /\ df' = df
       ELSE IF paste.kind = "ok" /\ ~df.some
       THEN df' = paste.table /\ errors' = errors
       ELSE df' = df /\ errors' = errors
    /\ pc' = "check"
    /\ UNCHANGED <<inputs, shown, max_hr_obs, thr, max_hr, model, zones,
                   zone_df, rendered>>

\* lines 104-111
Paste ==
    /\ pc = "paste"
    /\ IF paste.kind = "bad"
       THEN errors' = errors \cup {Err(MsgParse, {})} /\ df' = df
       ELSE IF paste.kind = "ok"
       THEN df' = paste.table /\ errors' = errors
       ELSE df' = df /\ errors' = errors
    /\ pc' = "check"
    /\ UNCHANGED <<inputs, shown, max_hr_obs, thr, max_hr, model, zones,
                   zone_df, rendered>>

\* lines 113-114
CheckTable ==
    /\ pc = "check"
    /\ pc' = IF df.some THEN "validate" ELSE "stopped"
    /\ UNCHANGED <<inputs, df, errors, shown, max_hr_obs, thr, max_hr, model,
                   zones, zone_df, rendered>>

\* the validation naming one absent column only
ValidateFirstMissing ==
    /\ pc = "validate"
    /\ LET missing == required \ df.cols
       IN  IF missing # {}
           THEN /\ errors' = errors \cup {Err(MsgMissing, {CHOOSE c \in missing : TRUE})}
                /\ pc' = "stopped"
           ELSE errors' = errors /\ pc' = "coerce"
    /\ UNCHANGED <<inputs, df, shown, max_hr_obs, thr, max_hr, model, zones,
                   zone_df, rendered>>

\* lines 118-121
Validate ==
    /\ pc = "validate"
    /\ LET missing == required \ df.cols
       IN  IF missing # {}
           THEN errors' = errors \cup {Err(MsgMissing, missing)} /\ pc' = "stopped"
           ELSE errors' = errors /\ pc' = "coerce"
    /\ UNCHANGED <<inputs, df, shown, max_hr_obs, thr, max_hr, model, zones,
                   zone_df, rendered>>

\* lines 123-128: astype(int) and to_numeric keep numbers and raise on text
Coerce ==
    /\ pc = "coerce"
    /\ IF \E k \in 1..Len(df.rows) :
              df.rows[k].Lap.t # "num" \/ df.rows[k].HR.t # "num"
       THEN errors' = errors \cup {Err(MsgType, {})} /\ pc' = "stopped"
       ELSE errors' = errors /\ pc' = "sort"
    /\ UNCHANGED <<inputs, df, shown, max_hr_obs, thr, max_hr, model, zones,
                   zone_df, rendered>>

\* The arrangements sort_values('Lap') may return for the rows indexed by
\* I: ascending Lap, rows of equal Lap in any order (the default sort
\* kind is not stable).
RECURSIVE Arrangements(_, _)
Arrangements(rows, I) ==
    IF I = {} THEN {<<>>}
    ELSE LET least == {i \in I : \A j \in I : rows[i].Lap.v <= rows[j].Lap.v}
         IN  UNION {{<<rows[i]>> \o rest : rest \in Arrangements(rows, I \ {i})} :
                    i \in least}

\* the rows left in file order
FileOrder(rows) == {rows}

\* df.sort_values('Lap').reset_index(drop=True)
SortedByLap(rows) == Arrangements(rows, 1..Len(rows))

\* lines 130-131
Sort ==
    /\ pc = "sort"
    /\ \E sorted \in SortedByLap(df.rows) : df' = [df EXCEPT !.rows = sorted]
    /\ pc' = "time"
    /\ UNCHANGED <<inputs, errors, shown, max_hr_obs, thr, max_hr, model,
                   zones, zone_df, rendered>>

\* lines 141-145; a ValueError of float() is not caught and ends the run
TimeParse ==
    /\ pc = "time"
    /\ IF "Time_sec" \in df.cols
       THEN df' = df /\ shown' = TRUE /\ pc' = "detect"
       ELSE LET secs == [k \in 1..Len(df.rows) |-> to_sec(df.rows[k].Time)]
            IN  IF \E k \in 1..Len(secs) : secs[k].t = "raise"
                THEN df' = df /\ shown' = shown /\ pc' = "exception"
                ELSE /\ df' = [df EXCEPT
                                 !.cols = df.cols \cup {"Time_sec"},
                                 !.rows = [k \in 1..Len(df.rows) |->
                                     [df.rows[k] EXCEPT !.Time_sec = secs[k]]]]
                     /\ shown' = TRUE
                     /\ pc' = "detect"
    /\ UNCHANGED <<inputs, errors, max_hr_obs, thr, max_hr, model, zones,
                   zone_df, rendered>>

\* lines 149-156; the max of an empty column is NaN and int(NaN) raises
Detect ==
    /\ pc = "detect"
    /\ IF Len(df.rows) = 0
       THEN pc' = "exception" /\ UNCHANGED <<max_hr_obs, thr>>
       ELSE /\ max_hr_obs' = Some(MaxHR(df.rows))
            /\ thr' = Some(DetectThr(df.rows))
            /\ pc' = "sidebar"
    /\ UNCHANGED <<inputs, df, errors, shown, max_hr, model, zones, zone_df,
                   rendered>>

\* lines 159-162: number_input returns its default until the user edits it
Sidebar ==
    /\ pc = "sidebar"
    /\ thr' = IF thrIn.set THEN thrIn ELSE thr
    /\ max_hr' = IF maxIn.set THEN maxIn ELSE max_hr_obs
    /\ model' = modelIn
    /\ pc' = "zones"
    /\ UNCHANGED <<inputs, df, errors, shown, max_hr_obs, zones, zone_df,
                   rendered>>

\* lines 178-183
BuildZones ==
    /\ pc = "zones"
    /\ zones' = SelectZones(model, thr.v, max_hr.v)
    /\ zone_df' = ZoneRows(zones')
    /\ pc' = "plot"
    /\ UNCHANGED <<inputs, df, errors, shown, max_hr_obs, thr, max_hr, model,
                   rendered>>

\* lines 186-200
Render ==
    /\ pc = "plot"
    /\ rendered' = TRUE
    /\ pc' = "done"
    /\ UNCHANGED <<inputs, df, errors, shown, max_hr_obs, thr, max_hr, model,
                   zones, zone_df>>

Next ==
    \/ Upload
    \/ Paste
    \/ CheckTable
    \/ Validate
    \/ Coerce
    \/ Sort
    \/ TimeParse
    \/ Detect
    \/ Sidebar
    \/ BuildZones
    \/ Render


----------------------------------------------------------------------------
(* The submissions explored.                                               *)

MaxRows   == 4       \* rows of a generated table
MaxParts  == 4       \* ':'-separated components of a generated Time text
MaxAnchor == 220     \* largest anchor the user types
NegAnchors == 3      \* how far below zero the typed anchors go

T310     == <<"3", ":", "1", "0">>
T10203   == <<"1", ":", "0", "2", ":", "0", "3">>
T31052   == <<"3", ":", "1", "0", ":", "5", ":", "2">>
T00240   == <<"0", ":", "0", "2", ":", "4", "0">>
T190     == <<"1", "9", "0">>

Row(lap, time, hr) ==
    [Lap |-> NumCell(lap), Time |-> time, HR |-> NumCell(hr), Time_sec |-> NoCell]

\* line 84: the text area's default, already parsed
SampleTable == Table({"Lap", "Time", "HR"}, <<Row(1, T00240, 145)>>)

NoUpload == [kind |-> "none", table |-> NoTable]
Pasted(tbl) == [kind |-> "ok", table |-> tbl]

Scenario(u, p, t, m, mdl) ==
    [up |-> u, paste |-> p, thrIn |-> t, maxIn |-> m, modelIn |-> mdl]

Models == {ModelMax, ModelThr}

\* Heart rates whose rises give single, double, late and no deflections,
\* and rises that exactly halve
HRVals == {100, 110, 114, 115, 116}

HRTable(h) == Table(required, [k \in 1..Len(h) |-> Row(k, T310, h[k])])

\* The two worked examples of the specification
HRSeven == <<134, 149, 159, 166, 173, 178, 182>>
HRFive  == <<100, 111, 120, 126, 129>>

DetectTables ==
    {HRTable(h) : h \in UNION {[1..n -> HRVals] : n \in 0..MaxRows}}
        \cup {HRTable(HRSeven), HRTable(HRFive)}

DetectScenarios ==
    {Scenario(NoUpload, Pasted(tbl), None, None, ModelMax) : tbl \in DetectTables}

\* Rows in every file order: heart rate by lap number ...
Profiles == << <<100, 110, 114, 115, 116, 117, 118, 119>>,
               <<100, 110, 115, 116, 110, 120, 121, 122>>,
               <<116, 115, 114, 110, 100, 120, 129, 130>> >>

Perms(n) == {f \in [1..n -> 1..n] : \A i, j \in 1..n : f[i] = f[j] => i = j}

PermTables ==
    {Table(required, [k \in 1..Len(f) |-> Row(f[k], T310, Profiles[p][f[k]])]) :
        f \in UNION {Perms(n) : n \in 1..MaxRows}, p \in 1..Len(Profiles)}

\* ... and repeated lap numbers, heart rate by file position
DupTables ==
    {Table(required, [k \in 1..Len(f) |-> Row(f[k], T310, Profiles[2][k])]) :
        f \in UNION {[1..n -> 1..2] : n \in 2..MaxRows}}

OrderScenarios ==
    {Scenario(NoUpload, Pasted(tbl), None, None, mdl) :
        tbl \in PermTables \cup DupTables, mdl \in Models}

\* Input sources: every state of the two tabs
FitTable ==
    Table({"Lap", "Time_sec", "HR", "Time"},
          << [Row(1, T310, 120) EXCEPT !.Time_sec = NumCell(190)],
             [Row(2, T310, 150) EXCEPT !.Time_sec = NumCell(190)],
             [Row(3, T310, 160) EXCEPT !.Time_sec = NumCell(190)] >>)

NoHRTable ==
    Table({"Lap", "Time"},
          << [Row(1, T310, 0) EXCEPT !.HR = NoCell],
             [Row(2, T310, 0) EXCEPT !.HR = NoCell] >>)

SourceTables ==
    {SampleTable, FitTable, NoHRTable, HRTable(<<100, 110, 114, 115>>)}

Uploads ==
    {NoUpload, [kind |-> "big", table |-> NoTable], [kind |-> "bad", table |-> NoTable]}
        \cup {[kind |-> "ok", table |-> tbl] : tbl \in SourceTables}

Pastes ==
    {[kind |-> "blank", table |-> NoTable], [kind |-> "bad", table |-> NoTable]}
        \cup {Pasted(tbl) : tbl \in SourceTables}

SourceScenarios ==
    {Scenario(u, p, None, None, ModelMax) : u \in Uploads, p \in Pastes}

\* Columns: every subset of the known columns, and text in Lap or HR
AllCols == {"Lap", "Time", "HR", "RPE", "Time_sec"}

ColRow(cols, lap, hr) ==
    [Lap      |-> IF "Lap" \in cols THEN NumCell(lap) ELSE NoCell,
     Time     |-> IF "Time" \in cols THEN T310 ELSE <<>>,
     HR       |-> IF "HR" \in cols THEN NumCell(hr) ELSE NoCell,
     Time_sec |-> IF "Time_sec" \in cols THEN NumCell(190) ELSE NoCell]

ColTables ==
    {Table(cols, <<ColRow(cols, 1, 140), ColRow(cols, 2, 150)>>) :
        cols \in SUBSET AllCols}

TextTables ==
    {Table(required, <<Row(1, T310, 140), [Row(2, T310, 150) EXCEPT !.Lap = StrCell]>>),
     Table(required, <<[Row(1, T310, 140) EXCEPT !.HR = StrCell], Row(2, T310, 150)>>),
     Table(required, <<[Row(1, T310, 140) EXCEPT !.HR = StrCell, !.Lap = StrCell]>>)}

ColumnScenarios ==
    {Scenario(NoUpload, Pasted(tbl), None, None, ModelMax) :
        tbl \in ColTables \cup TextTables}

\* Time texts: up to MaxParts components, each empty, digits or a letter.
\* The empty text is left out: read_csv gives an empty cell as NaN, not text.
PartSet == {<<>>, <<"3">>, <<"1", "0">>, <<"0", "5">>, <<"x">>}

RECURSIVE Join(_, _)
Join(parts, i) ==
    IF i > Len(parts) THEN <<>>
    ELSE IF i = Len(parts) THEN parts[i]
    ELSE parts[i] \o <<":">> \o Join(parts, i + 1)

TimeTexts ==
    ({Join(ps, 1) : ps \in UNION {[1..k -> PartSet] : k \in 1..MaxParts}}
        \cup {T310, T10203, T31052, T00240, T190}) \ {<<>>}

TimeTables ==
    {Table(required, <<Row(1, t, 150)>>) : t \in TimeTexts}
        \cup {Table(required, <<Row(1, t1, 150), Row(2, t2, 160), Row(3, T310, 165)>>) :
                 t1, t2 \in {T310, T10203, T31052, T190, <<"x">>}}

TimeScenarios ==
    {Scenario(NoUpload, Pasted(tbl), None, None, ModelMax) : tbl \in TimeTables}

\* Anchors: every typed value in range under each model
AnchorRange == (0 - NegAnchors)..MaxAnchor

AnchorTable == HRTable(<<100, 110, 115>>)

AnchorScenarios ==
    {Scenario(NoUpload, Pasted(AnchorTable), None, Some(m), ModelMax) :
        m \in AnchorRange}
    \cup
    {Scenario(NoUpload, Pasted(AnchorTable), Some(t), m, ModelThr) :
        t \in AnchorRange,
        m \in {None, Some(0 - NegAnchors), Some(0), Some(100), Some(MaxAnchor + 10)}}
    \cup
    {Scenario(NoUpload, Pasted(AnchorTable), t, Some(m), mdl) :
        t \in {None, Some(0), Some(90)}, m \in {0, 200}, mdl \in Models}

Scenarios ==
    DetectScenarios \cup OrderScenarios \cup SourceScenarios
        \cup ColumnScenarios \cup TimeScenarios \cup AnchorScenarios

Init ==
    /\ \E s \in Scenarios :
          /\ up = s.up
          /\ paste = s.paste
          /\ thrIn = s.thrIn
          /\ maxIn = s.maxIn
          /\ modelIn = s.modelIn
    /\ pc = "upload"
    /\ df = NoTable
    /\ errors = {}
    /\ shown = FALSE
    /\ max_hr_obs = None
    /\ thr = None
    /\ max_hr = None
    /\ model = ""
    /\ zones = <<>>
    /\ zone_df = <<>>
    /\ rendered = FALSE

Spec == Init /\ [][Next]_vars


----------------------------------------------------------------------------
(* Properties.                                                             *)

ZonesBuilt == pc \in {"plot", "done"}

Min(S) == CHOOSE x \in S : \A y \in S : x <= y
Max(S) == CHOOSE x \in S : \A y \in S : y <= x

\* The heart rates of a row sequence, and of it the rise at source index i
HRs(rows) == [k \in 1..Len(rows) |-> rows[k].HR.v]
Rise(h, i) == IF i = 0 THEN 0 ELSE h[i + 1] - h[i]

\* The source indices that qualify as a deflection
Qualifying(h) ==
    {i \in 2..(Len(h) - 1) :
        Rise(h, i) > 0 /\ Rise(h, i - 1) > 0 /\ 2 * Rise(h, i) < Rise(h, i - 1)}

\* C1: with both anchors positive the five bands are contiguous and ordered,
\* as real-valued bounds and as the integers of the zone table.
C1_ContiguousOrdered ==
    (ZonesBuilt /\ thr.v > 0 /\ max_hr.v > 0) =>
        /\ Len(zones) = 5 /\ Len(zone_df) = 5
        /\ \A n \in 1..4 :
              /\ zones[n].hi = zones[n + 1].lo
              /\ FLeq(zones[n].lo, zones[n + 1].lo)
              /\ zone_df[n].High = zone_df[n + 1].Low
              /\ zone_df[n].Low <= zone_df[n + 1].Low

C1_Witness ==
    /\ pc = "done" /\ model = ModelThr
    /\ thr.v = 100 /\ max_hr.v = 100
    /\ zone_df[4].High = 100 /\ zone_df[5].Low = 100 /\ zone_df[5].High = 114

\* C2: the detected threshold is the heart rate at the smallest qualifying
\* index i >= 2 (strict halving), whatever qualifies later.
C2_FirstMatch ==
    pc = "sidebar" =>
        LET h == HRs(df.rows)
        IN  Qualifying(h) # {} => thr = Some(h[Min(Qualifying(h)) + 1])

C2_Witness ==
    /\ pc = "sidebar"
    /\ LET h == HRs(df.rows)
       IN  /\ Cardinality(Qualifying(h)) >= 2
           /\ h[Min(Qualifying(h)) + 1] # h[Max(Qualifying(h)) + 1]
           /\ thr.v = h[Min(Qualifying(h)) + 1]

\* 0.9*m rounded to the nearest integer (ties to even, as Python's round)
RoundNineTenths(m) ==
    LET q == (9 * m) \div 10
        r == (9 * m) % 10
    IN  IF r > 5 \/ (r = 5 /\ q % 2 = 1) THEN q + 1 ELSE q

\* C3: when no index qualifies the threshold is round(0.9 * maxHeartRate);
\* 164 for a maximum of 182.
C3_RoundedDefault ==
    (pc = "sidebar" /\ Qualifying(HRs(df.rows)) = {}) =>
        /\ thr = Some(RoundNineTenths(max_hr_obs.v))
        /\ max_hr_obs.v = 182 => thr.v = 164

\* x is the double of (c100/100)*a: within 2^-33 of it, with its sign
Near(x, c100, a) ==
    LET d == BDist(BMulSmall(x.mag, 100),
                   BMulSmall(<<0, 0, 0, 0, 2, 0>>, c100 * Abs(a)))
    IN  /\ \A i \in 3..6 : d[i] = 0
        /\ c100 * a # 0 => (x.neg <=> a < 0)

MaxPercents == <<55, 70, 80, 87, 92, 100>>
ThrPercents == <<0, 85, 89, 94, 100>>

\* C4: the bands are the formula table of the selected model, the selector
\* alone deciding which; under the threshold model Zone 5 ends at the
\* greater of 1.15T and M, never below M; for M = 200 the table reads
\* 110, 140, 160, 174, 184, 200.
C4_FormulaTable ==
    ZonesBuilt =>
        LET M == max_hr.v
            T == thr.v
        IN  /\ Len(zones) = 5
            /\ [n \in 1..5 |-> zones[n].zone]
                 = <<"Zone 1", "Zone 2", "Zone 3", "Zone 4", "Zone 5">>
            /\ zone_df = [n \in 1..5 |->
                  [Zone |-> zones[n].zone, Low |-> FTrunc(zones[n].lo),
                   High |-> FTrunc(zones[n].hi)]]
            /\ IF modelIn = ModelMax
               THEN /\ \A n \in 1..5 :
                         /\ Near(zones[n].lo, MaxPercents[n], M)
                         /\ Near(zones[n].hi, MaxPercents[n + 1], M)
                    /\ M = 200 =>
                         /\ [n \in 1..5 |-> zone_df[n].Low] = <<110, 140, 160, 174, 184>>
                         /\ [n \in 1..5 |-> zone_df[n].High] = <<140, 160, 174, 184, 200>>
               ELSE /\ \A n \in 1..5 : Near(zones[n].lo, ThrPercents[n], T)
                    /\ \A n \in 1..4 : Near(zones[n].hi, ThrPercents[n + 1], T)
                    /\ IF 115 * T > 100 * M
                       THEN Near(zones[5].hi, 115, T)
                       ELSE Near(zones[5].hi, 100, M)
                    /\ FLeq(FInt(M), zones[5].hi)

C4_Witness ==
    /\ pc = "done" /\ modelIn = ModelMax /\ max_hr.v = 200
    /\ zone_df[4] = [Zone |-> "Zone 4", Low |-> 174, High |-> 184]

\* C5: a table lacking a required column ends the run with one error naming
\* exactly the absent required columns, and nothing else is produced.
C5_MissingColumns ==
    (df.some /\ pc \notin {"upload", "paste", "check", "validate"}) =>
        LET absent == {c \in {"Lap", "Time", "HR"} : c \notin df.cols}
            named  == {e \in errors : e.msg = MsgMissing}
        IN  IF absent # {}
            THEN /\ pc = "stopped"
                 /\ named = {Err(MsgMissing, absent)}
                 /\ ~shown /\ ~thr.set /\ ~max_hr.set
                 /\ zones = <<>> /\ zone_df = <<>> /\ ~rendered
            ELSE named = {}

C5_Witness ==
    /\ pc = "stopped"
    /\ df.some /\ df.cols = {"Lap", "Time"}
    /\ errors = {Err(MsgMissing, {"HR"})}

AfterTime == {"detect", "sidebar", "zones", "plot", "done"}

\* Elapsed seconds by the claimed rule, for two or three numeric components
ClaimedSeconds(parts) ==
    IF Len(parts) = 2 THEN 60 * Float(parts[1]) + Float(parts[2])
    ELSE 3600 * Float(parts[1]) + 60 * Float(parts[2]) + Float(parts[3])

\* C6: a Time text whose component count is neither 2 nor 3 rejects the
\* submission: a run goes on past time parsing only with every Time of two
\* or three components and its elapsed seconds by the minutes/hours rule.
C6_BadCountRejected ==
    (df.some /\ pc \in AfterTime) =>
        \A k \in 1..Len(df.rows) :
            LET parts == Split(df.rows[k].Time)
            IN  /\ Len(parts) \in {2, 3}
                /\ df.rows[k].Time_sec = NumCell(ClaimedSeconds(parts))

\* The part of C6 the code does meet: a value is produced for two or three
\* components only, and by the claimed rule
C6_ValuesByRule ==
    (df.some /\ pc \in AfterTime) =>
        \A k \in 1..Len(df.rows) :
            LET parts == Split(df.rows[k].Time)
            IN  IF Len(parts) \in {2, 3}
                THEN df.rows[k].Time_sec = NumCell(ClaimedSeconds(parts))
                ELSE df.rows[k].Time_sec = NaNCell

\* C7: a non-positive anchor after override is rejected and no zone table
\* is produced.
C7_NonPositiveRejected ==
    ((thr.set /\ thr.v <= 0) \/ (max_hr.set /\ max_hr.v <= 0)) =>
        (zones = <<>> /\ zone_df = <<>>)

\* C8: no partial success: a zone table comes only with no error reported
\* and with every record's elapsed seconds and heart rate defined.
C8_NoPartialSuccess ==
    zone_df # <<>> =>
        /\ errors = {}
        /\ \A k \in 1..Len(df.rows) :
              df.rows[k].Time_sec.t = "num" /\ df.rows[k].HR.t = "num"

Ascending(rows) ==
    \A k \in 1..(Len(rows) - 1) : rows[k].Lap.v <= rows[k + 1].Lap.v

UniqueLaps(rows) ==
    \A i, j \in 1..Len(rows) : rows[i].Lap.v = rows[j].Lap.v => i = j

SameRows(a, b) ==
    /\ Len(a) = Len(b)
    /\ \A r \in Range(a) \cup Range(b) :
          Cardinality({i \in 1..Len(a) : a[i] = r})
              = Cardinality({i \in 1..Len(b) : b[i] = r})

\* The heart rates of a set of <<lap, heart rate>> pairs by ascending lap
ByLap(S) ==
    [i \in 1..Cardinality(S) |->
        (CHOOSE p \in S : Cardinality({q \in S : q[1] < p[1]}) = i - 1)[2]]

AnchorsOf(S) ==
    LET h == ByLap(S)
        m == Max(Range(h))
    IN  <<m, IF Qualifying(h) # {} THEN h[Min(Qualifying(h)) + 1] ELSE (9 * m) \div 10>>

\* C9: the sort keeps the rows and leaves them in ascending lap order before
\* the anchors are computed, so with unique laps the anchors depend on the
\* set of rows only, not on their order in the input.
C9_SortedBeforeAnchors ==
    /\ []((df.some /\ pc \in {"time", "exception"} \cup AfterTime) => Ascending(df.rows))
    /\ [][pc = "sort" => SameRows(df.rows, df'.rows)]_vars
    /\ []((pc = "sidebar" /\ UniqueLaps(df.rows)) =>
            <<max_hr_obs.v, thr.v>>
                = AnchorsOf({<<df.rows[k].Lap.v, df.rows[k].HR.v>> : k \in 1..Len(df.rows)}))

C9_Witness ==
    /\ pc = "sidebar"
    /\ paste.kind = "ok" /\ ~Ascending(paste.table.rows)
    /\ UniqueLaps(df.rows) /\ Len(df.rows) = 4
    /\ HRs(df.rows) = <<100, 110, 114, 115>>
    /\ HRs(paste.table.rows) = <<115, 100, 114, 110>>
    /\ thr.v = 114

\* C10: after both tabs ran the table is the pasted one whenever the paste
\* parsed, the uploaded one only when it did not, and the run stops with
\* nothing produced only when neither tab gave a table.
C10_PastePrecedence ==
    /\ pc = "check" =>
          df = IF paste.kind = "ok" THEN paste.table
               ELSE IF up.kind = "ok" THEN up.table
               ELSE NoTable
    /\ (pc \notin {"upload", "paste", "check"}) =>
          (~df.some <=> (paste.kind # "ok" /\ up.kind # "ok"))
    /\ (pc \notin {"upload", "paste", "check"} /\ ~df.some) =>
          /\ pc = "stopped"
          /\ ~shown /\ zones = <<>> /\ zone_df = <<>> /\ ~rendered

C10_Witness ==
    /\ pc = "check"
    /\ up.kind = "ok" /\ paste.kind = "ok"
    /\ up.table # paste.table
    /\ df = paste.table

=============================================================================
